---- MODULE Spec2Model ----
(***************************************************************************)
(* Model of the scheduling core of ulc-schedule-maker-v2:                  *)
(*   - getClassSchedule, the interval resolver imported from ./algo        *)
(*     (src/src/index.ts:406); its source file is not part of src/, so it  *)
(*     is written from spec.md section 4.4, with both policies for         *)
(*     touching intervals that the section names;                          *)
(*   - CourseInfo.matchScore, imported from ../@types/scheduler            *)
(*     (src/src/index.ts:407-418), written from spec.md section 4.1;       *)
(*   - bin (src/src/index.ts:590-655);                                     *)
(*   - the resolution pass of the POST /api/schedule handler               *)
(*     (src/src/index.ts:763-799).                                         *)
(***************************************************************************)
EXTENDS Integers, Sequences, FiniteSets, TLC

VARIABLES
    rawIn,      \* resolver run: the raw interval list handed to getClassSchedule
    rpc,        \* resolver run: "raw" | "once" | "twice"
    out1,       \* resolver run: getClassSchedule(rawIn)
    out2,       \* resolver run: getClassSchedule(out1)
    catalog,    \* courseCatalog: sequence of CourseInfo, caller-supplied
    locations,  \* locations: sequence of location names, caller-supplied
    shifts,     \* allShifts: sequence of Shift, caller-supplied
    schedule,   \* binnedSchedule / schedule: the nested Schedule being built
    pc,         \* "start" | "populate" | "binned" | "resolved" | "sent"; "idle" in a resolver run
    k,          \* position of bin's nested forEach in the (shift, tag) pairs
    sent,       \* the body given to res.json, <<>> before it is sent
    file,       \* handler run: the characters of ./courseCatalog.csv
    req,        \* handler run: the local state of every /api/schedule request
    mergeTouching   \* ./algo: TRUE when the resolver merges touching intervals

resolveVars == <<rawIn, rpc, out1, out2>>
binVars == <<catalog, locations, shifts, schedule, pc, k, sent>>
handlerVars == <<file, req>>
algoVars == <<mergeTouching>>
vars == <<rawIn, rpc, out1, out2, catalog, locations, shifts, schedule, pc, k, sent, file, req, mergeTouching>>

----------------------------------------------------------------------------
(* Bounds *)

MaxTime == 3
MaxIntervals == 3
MaxCatalog == 2
MaxLocations == 2
MaxShifts == 2
MaxCalendars == 2
MaxParallel == 1

Times == 0..MaxTime

\* Interval {start, end}; spec.md section 3 gives the invariant start < end.
Interval(s, e) == [start |-> s, end |-> e]

Intervals == { Interval(s, e) : s \in Times, e \in Times } \ { iv \in [start : Times, end : Times] : iv.end <= iv.start }

RECURSIVE SeqsUpTo(_, _)
SeqsUpTo(S, n) ==
    IF n = 0 THEN { <<>> }
    ELSE LET shorter == SeqsUpTo(S, n - 1)
         IN  shorter \cup { Append(s, x) : s \in { t \in shorter : Len(t) = n - 1 }, x \in S }

Max(a, b) == IF a >= b THEN a ELSE b

----------------------------------------------------------------------------
(* Interval resolver: getClassSchedule (spec.md section 4.4) *)

\* Sort order: start ascending, tie-break end ascending.
Before(a, b) == a.start < b.start \/ (a.start = b.start /\ a.end <= b.end)

RECURSIVE InsertSorted(_, _)
InsertSorted(sorted, x) ==
    IF sorted = <<>> THEN <<x>>
    ELSE IF Before(sorted[Len(sorted)], x) THEN Append(sorted, x)
    ELSE Append(InsertSorted(SubSeq(sorted, 1, Len(sorted) - 1), x), sorted[Len(sorted)])

RECURSIVE SortByStart(_)
SortByStart(s) ==
    IF s = <<>> THEN <<>>
    ELSE InsertSorted(SortByStart(SubSeq(s, 1, Len(s) - 1)), s[Len(s)])

\* The scan extends the running interval by the next one: always when the
\* next start is before the running end.  For a next start equal to the
\* running end spec.md section 4.4 gives both answers (the algorithm extends
\* on <=, the edge cases keep touching intervals apart) and ./algo is not in
\* src/: mergeTouching is the answer of the resolver at hand.
Extends(run, nxt) ==
    nxt.start < run.end \/ (mergeTouching /\ nxt.start = run.end)

\* Variant of ScanStep: the running end is overwritten by the next end.
ScanStep_TakesNextEnd(acc, nxt) ==
    IF acc = <<>> THEN <<nxt>>
    ELSE LET run == acc[Len(acc)]
         IN  IF Extends(run, nxt)
             THEN [acc EXCEPT ![Len(acc)] = Interval(run.start, nxt.end)]
             ELSE Append(acc, nxt)

\* One step of the left-to-right scan: acc is the output so far, its last
\* element the running merged interval.
ScanStep(acc, nxt) ==
    IF acc = <<>> THEN <<nxt>>
    ELSE LET run == acc[Len(acc)]
         IN  IF Extends(run, nxt)
             THEN [acc EXCEPT ![Len(acc)] = Interval(run.start, Max(run.end, nxt.end))]
             ELSE Append(acc, nxt)

RECURSIVE MergeScan(_, _, _)
MergeScan(sorted, i, acc) ==
    IF i > Len(sorted) THEN acc
    ELSE MergeScan(sorted, i + 1, ScanStep(acc, sorted[i]))

\* Variant of getClassSchedule: the last running interval is never closed.
getClassSchedule_DropsLast(intervals) ==
    LET merged == MergeScan(SortByStart(intervals), 1, <<>>)
    IN  SubSeq(merged, 1, Len(merged) - 1)

getClassSchedule(intervals) == MergeScan(SortByStart(intervals), 1, <<>>)

----------------------------------------------------------------------------
(* CourseInfo.matchScore (spec.md section 4.1).  It works on the characters  *)
(* of a string, a sequence of character codes: 0 is the blank, 1..99 are     *)
(* lower-case letters, digits and punctuation, and 100 + c is the upper-case *)
(* form of the letter c.                                                     *)

ToLower(ch) == IF ch > 100 THEN ch - 100 ELSE ch

NotBlank(ch) == ch # 0

\* "modulo case/whitespace": lower-case the string and drop its blanks.
Normalize(str) ==
    LET kept == SelectSeq(str, NotBlank)
    IN  [i \in 1..Len(kept) |-> ToLower(kept[i])] \o <<>>

Least(S) == CHOOSE x \in S : \A y \in S : x <= y

\* One row of the edit-distance table from the row before it: prev is the
\* row of the prefix of a before ch (cell j at index j + 1).  Cell j is the
\* least of prev[j] + 1 (delete ch), prev[j - 1] + cost (substitute) and
\* cell j - 1 plus 1 (insert b[j]); the last is unfolded, so that cell j is
\* the least over the cells k <= j of the first two, plus the j - k inserts.
EditRow(prev, ch, b) ==
    LET FromAbove(j) ==
            IF j = 0 THEN prev[1] + 1
            ELSE Least({ prev[j + 1] + 1, prev[j] + (IF b[j] = ch THEN 0 ELSE 1) })
    IN  [i \in 1..(Len(b) + 1) |->
            Least({ FromAbove(kk) + ((i - 1) - kk) : kk \in 0..(i - 1) })] \o <<>>

\* Row i of the table: the distances of the first i characters of a to
\* every prefix of b.
RECURSIVE EditRows(_, _, _)
EditRows(a, b, i) ==
    IF i = 0 THEN [j \in 1..(Len(b) + 1) |-> j - 1] \o <<>>
    ELSE EditRow(EditRows(a, b, i - 1), a[i], b)

\* The length of the longest common prefix of two strings.
CommonPrefix(a, b) ==
    LET shorter == IF Len(a) <= Len(b) THEN Len(a) ELSE Len(b)
    IN  CHOOSE p \in 0..shorter :
            /\ \A i \in 1..p : a[i] = b[i]
            /\ p = shorter \/ a[p + 1] # b[p + 1]

\* Levenshtein distance of two strings; a common prefix costs no edit, so
\* the table is built for what follows it.
EditDistance(a, b) ==
    LET p == CommonPrefix(a, b)
        restA == SubSeq(a, p + 1, Len(a))
        restB == SubSeq(b, p + 1, Len(b))
    IN  EditRows(restA, restB, Len(restA))[Len(restB) + 1]

\* The score as a fraction num/den in [0,1]: 1 - distance / longer length of
\* the normalised strings; identical strings score 1.
Similarity(abbreviation, tag) ==
    LET a == Normalize(abbreviation)
        b == Normalize(tag)
        longer == Max(Len(a), Len(b))
    IN  IF a = b THEN [num |-> 1, den |-> 1]
        ELSE [num |-> longer - EditDistance(a, b), den |-> longer]

\* The sample strings: two course abbreviations and three tags.
\*   "csci-ua 0101"  is "CSCI-UA0101" modulo case and blanks, 10/11 against "CSCI-UA101";
\*   "CSCI-UA0111"   scores 10/11 against "CSCI-UA0101", 9/11 against "CSCI-UA101";
\*   "CSCI-UA102"    scores exactly 9/10 against "CSCI-UA101", 9/11 against "CSCI-UA0101".
CoursePool == { "CSCI-UA101", "CSCI-UA0101" }
TagPool == { "csci-ua 0101", "CSCI-UA0111", "CSCI-UA102" }

\* The abbreviation getCourseCatalog gives for a blank line of the catalog
\* source.  It scores 0 against every sample tag.  Against a tag that is
\* empty modulo blanks spec.md section 4.1 gives two scores (identical
\* strings score 1; a degenerate entry never matches) and matchScore is not
\* in src/: no tag of the model is empty, and the table holds no such pair.
DegenerateAbbreviation == ""

\* The characters of a sample string: a..z are 1..26, "0".."2" are 30..32,
\* "-" is 40.
Chars(str) ==
    CASE str = "CSCI-UA101" -> <<103, 119, 103, 109, 40, 121, 101, 31, 30, 31>>
      [] str = "CSCI-UA0101" -> <<103, 119, 103, 109, 40, 121, 101, 30, 31, 30, 31>>
      [] str = "csci-ua 0101" -> <<3, 19, 3, 9, 40, 21, 1, 0, 30, 31, 30, 31>>
      [] str = "CSCI-UA0111" -> <<103, 119, 103, 109, 40, 121, 101, 30, 31, 31, 31>>
      [] str = "CSCI-UA102" -> <<103, 119, 103, 109, 40, 121, 101, 31, 30, 32>>
      [] str = "" -> <<>>

\* The scores of the sample strings, computed once.
ScoreTable ==
    [abbreviation \in CoursePool \cup { DegenerateAbbreviation },
     tag \in TagPool |-> Similarity(Chars(abbreviation), Chars(tag))]

\* courseInfo.matchScore(tag)
matchScore(courseInfo, tag) == ScoreTable[courseInfo.abbreviation, tag]

\* Variant of AboveThreshold: matchScore(tag) >= 0.9.
AboveThreshold_AtLeast(score) == 10 * score.num >= 9 * score.den

\* matchScore(tag) > 0.9, the threshold bin applies.
AboveThreshold(score) == 10 * score.num > 9 * score.den

----------------------------------------------------------------------------
(* bin (src/src/index.ts:590-655) *)

WeekDays == <<0, 1, 2, 3, 4, 5, 6>>

\* Array.prototype.find: of the indices whose element passes the test, the
\* first; 0 if none does.
FindFirst(hits) ==
    IF hits = {} THEN 0 ELSE CHOOSE i \in hits : \A j \in hits : i <= j

\* Variant of Skeleton: the weekdays are numbered 1..7.
Skeleton_DaysFromOne(courses, locs) ==
    [c \in 1..Len(courses) |->
        [courseInfo |-> courses[c],
         locationSchedules |->
            [l \in 1..Len(locs) |->
                [location |-> locs[l],
                 dailySchedules |->
                    [d \in 1..Len(WeekDays) |-> [weekDay |-> d, intervals |-> <<>>]]]]]]

\* "create empty schedule": course x location x weekday, every cell empty.
Skeleton(courses, locs) ==
    [c \in 1..Len(courses) |->
        [courseInfo |-> courses[c],
         locationSchedules |->
            [l \in 1..Len(locs) |->
                [location |-> locs[l],
                 dailySchedules |->
                    [d \in 1..Len(WeekDays) |->
                        [weekDay |-> WeekDays[d], intervals |-> <<>>]]]]]]

\* Lines 640-651: push the shift's interval onto the weekday's list of
\* LocationSchedule l of CourseSchedule c.
PlaceInDay(sched, c, l, shift) ==
    LET days == sched[c].locationSchedules[l].dailySchedules
        d == FindFirst({ i \in DOMAIN days : shift.weekDay = days[i].weekDay })
    IN  IF d = 0 THEN sched
        ELSE [sched EXCEPT ![c].locationSchedules[l].dailySchedules[d].intervals =
                  Append(@, Interval(shift.start, shift.end))]

\* Lines 631-651: find the LocationSchedule of the shift's location in
\* CourseSchedule c, then the weekday.
PlaceInCourse(sched, c, shift) ==
    LET locs == sched[c].locationSchedules
        l == FindFirst({ i \in DOMAIN locs : shift.location = locs[i].location })
    IN  IF l = 0 THEN sched ELSE PlaceInDay(sched, c, l, shift)

\* Variant of PlaceTag: the last CourseSchedule above the threshold is taken.
PlaceTag_LastMatch(sched, shift, courseGiven) ==
    LET hits == { c \in DOMAIN sched : AboveThreshold(matchScore(sched[c].courseInfo, courseGiven)) }
    IN  IF hits = {} THEN sched
        ELSE PlaceInCourse(sched, CHOOSE c \in hits : \A j \in hits : j <= c, shift)

\* Variant of PlaceTag: every CourseSchedule above the threshold is taken.
RECURSIVE PlaceFrom(_, _, _, _)
PlaceFrom(sched, shift, courseGiven, c) ==
    IF c > Len(sched) THEN sched
    ELSE PlaceFrom(IF AboveThreshold(matchScore(sched[c].courseInfo, courseGiven))
                   THEN PlaceInCourse(sched, c, shift) ELSE sched,
                   shift, courseGiven, c + 1)

PlaceTag_EveryMatch(sched, shift, courseGiven) == PlaceFrom(sched, shift, courseGiven, 1)

\* Variant of PlaceTag: a shift of an unknown location falls into the first
\* LocationSchedule.
PlaceTag_DefaultLocation(sched, shift, courseGiven) ==
    LET c == FindFirst({ i \in DOMAIN sched :
                           AboveThreshold(matchScore(sched[i].courseInfo, courseGiven)) })
    IN  IF c = 0 THEN sched
        ELSE LET locs == sched[c].locationSchedules
                 l == FindFirst({ i \in DOMAIN locs : shift.location = locs[i].location })
             IN  IF l # 0 THEN PlaceInDay(sched, c, l, shift)
                 ELSE IF sched[c].locationSchedules = <<>> THEN sched
                 ELSE PlaceInDay(sched, c, 1, shift)

\* Lines 620-652: the body of shift.coursesGiven.forEach for one tag of one
\* shift: the first CourseSchedule whose matchScore(tag) > 0.9, if any.
PlaceTag(sched, shift, courseGiven) ==
    LET c == FindFirst({ i \in DOMAIN sched :
                           AboveThreshold(matchScore(sched[i].courseInfo, courseGiven)) })
    IN  IF c = 0 THEN sched ELSE PlaceInCourse(sched, c, shift)

\* The order in which shifts.forEach / coursesGiven.forEach visit the
\* (shift index, tag index) pairs.
RECURSIVE Pairs(_, _)
Pairs(shs, i) ==
    IF i > Len(shs) THEN <<>>
    ELSE [t \in 1..Len(shs[i].coursesGiven) |-> <<i, t>>] \o Pairs(shs, i + 1)

RECURSIVE Populate(_, _, _, _)
Populate(sched, shs, pairs, n) ==
    IF n > Len(pairs) THEN sched
    ELSE Populate(PlaceTag(sched, shs[pairs[n][1]], shs[pairs[n][1]].coursesGiven[pairs[n][2]]),
                  shs, pairs, n + 1)

bin(courses, locs, shs) == Populate(Skeleton(courses, locs), shs, Pairs(shs, 1), 1)

----------------------------------------------------------------------------
(* The resolution pass of POST /api/schedule (src/src/index.ts:765-797) *)

\* courseCatalog.forEach / locations.forEach / [0..6].forEach visit every
\* requested (courseInfo, location, weekDay); a visit finds its cell by three
\* finds on the names and replaces the cell's intervals by getClassSchedule
\* of them.  The finds read names only, which no visit changes, so the pass
\* is written cell by cell: a cell is resolved once for each visit that
\* finds it.

\* Lines 765-776: the visits of courseCatalog.forEach whose find returns
\* CourseSchedule c.
CourseVisits(sched, courses, c) ==
    Cardinality({ ci \in DOMAIN courses :
        FindFirst({ i \in DOMAIN sched :
                      sched[i].courseInfo.abbreviation = courses[ci].abbreviation }) = c })

\* Variant of LocationVisits: the last LocationSchedule of the name is found.
LocationVisits_LastMatch(locSchedules, locs, l) ==
    Cardinality({ li \in DOMAIN locs :
        LET hits == { i \in DOMAIN locSchedules : locSchedules[i].location = locs[li] }
        IN  hits # {} /\ l = (CHOOSE i \in hits : \A j \in hits : j <= i) })

\* Lines 766, 777-784: the visits of locations.forEach whose find returns
\* LocationSchedule l.
LocationVisits(locSchedules, locs, l) ==
    Cardinality({ li \in DOMAIN locs :
        FindFirst({ i \in DOMAIN locSchedules : locSchedules[i].location = locs[li] }) = l })

\* Lines 767, 785-789: the visits of [0..6].forEach whose find returns
\* DailySchedule d.
DayVisits(days, d) ==
    Cardinality({ wi \in DOMAIN WeekDays :
        FindFirst({ i \in DOMAIN days : days[i].weekDay = WeekDays[wi] }) = d })

\* Variant of ResolveCell: the resolver's result is not stored.
ResolveCell_Discards(intervals, visits) == intervals

\* Lines 790-794, once per visit:
\* dailySchedule.intervals = getClassSchedule(dailySchedule.intervals)
RECURSIVE ResolveCell(_, _)
ResolveCell(intervals, visits) ==
    IF visits = 0 THEN intervals
    ELSE getClassSchedule(ResolveCell(intervals, visits - 1))

ResolveDays(days, visits) ==
    [d \in DOMAIN days |->
        [days[d] EXCEPT !.intervals = ResolveCell(@, visits * DayVisits(days, d))]]

ResolveLocations(locSchedules, locs, visits) ==
    [l \in DOMAIN locSchedules |->
        [locSchedules[l] EXCEPT !.dailySchedules =
            ResolveDays(@, visits * LocationVisits(locSchedules, locs, l))]]

ResolveAll(sched, courses, locs) ==
    [c \in DOMAIN sched |->
        [sched[c] EXCEPT !.locationSchedules =
            ResolveLocations(@, locs, CourseVisits(sched, courses, c))]]

----------------------------------------------------------------------------
(* Specification of a resolver run on one DailySchedule's interval list *)

InitResolve ==
    /\ rawIn \in SeqsUpTo(Intervals, MaxIntervals)
    /\ rpc = "raw"
    /\ out1 = <<>>
    /\ out2 = <<>>
    /\ file = <<>>
    /\ req = <<>>
    /\ mergeTouching \in BOOLEAN
    /\ catalog = <<>>
    /\ locations = <<>>
    /\ shifts = <<>>
    /\ schedule = <<>>
    /\ pc = "idle"
    /\ k = 0
    /\ sent = <<>>

\* dailySchedule.intervals = getClassSchedule(dailySchedule.intervals)
Resolve ==
    /\ rpc = "raw"
    /\ out1' = getClassSchedule(rawIn)
    /\ rpc' = "once"
    /\ UNCHANGED <<rawIn, out2>>
    /\ UNCHANGED binVars
    /\ UNCHANGED handlerVars
    /\ UNCHANGED algoVars

\* the same cell visited a second time by the resolution pass
ResolveAgain ==
    /\ rpc = "once"
    /\ out2' = getClassSchedule(out1)
    /\ rpc' = "twice"
    /\ UNCHANGED <<rawIn, out1>>
    /\ UNCHANGED binVars
    /\ UNCHANGED handlerVars
    /\ UNCHANGED algoVars

NextResolve == Resolve \/ ResolveAgain

SpecResolve == InitResolve /\ [][NextResolve]_vars

----------------------------------------------------------------------------
(* Inputs of a scheduling run *)

LocationPool == { "ARC", "UHall" }

CourseInfo(abbreviation) == [abbreviation |-> abbreviation]

Shift(location, weekDay, iv, coursesGiven) ==
    [location |-> location, weekDay |-> weekDay, start |-> iv.start, end |-> iv.end,
     coursesGiven |-> coursesGiven]

\* The sample shifts:
\*   BaseShift      a shift at a requested location whose tag matches;
\*   OverlapShift   the same cell, an overlapping interval, an unmatched tag first;
\*   UnknownShift   a matching tag at a location that is no requested one;
\*   TwiceShift     another location and weekday, the same tag twice.
BaseShift == Shift("ARC", 2, Interval(0, 2), <<"csci-ua 0101">>)
OverlapShift == Shift("ARC", 2, Interval(1, 3), <<"CSCI-UA102", "CSCI-UA0111">>)
UnknownShift == Shift("arc", 2, Interval(0, 1), <<"csci-ua 0101">>)
TwiceShift == Shift("UHall", 6, Interval(2, 3), <<"csci-ua 0101", "csci-ua 0101">>)

ShiftPool == { BaseShift, OverlapShift, UnknownShift, TwiceShift }

----------------------------------------------------------------------------
(* Specification of a scheduling run: bin, the resolution pass, res.json *)

Init ==
    /\ catalog \in { [i \in 1..Len(s) |-> CourseInfo(s[i])] : s \in SeqsUpTo(CoursePool, MaxCatalog) }
    /\ locations \in SeqsUpTo(LocationPool, MaxLocations)
    /\ shifts \in SeqsUpTo(ShiftPool, MaxShifts)
    /\ schedule = <<>>
    /\ pc = "start"
    /\ k = 0
    /\ sent = <<>>
    /\ rawIn = <<>>
    /\ rpc = "idle"
    /\ out1 = <<>>
    /\ out2 = <<>>
    /\ file = <<>>
    /\ req = <<>>
    /\ mergeTouching \in BOOLEAN

\* bin, lines 596-616: build the empty schedule
BinSkeleton ==
    /\ pc = "start"
    /\ schedule' = Skeleton(catalog, locations)
    /\ k' = 1
    /\ pc' = "populate"
    /\ UNCHANGED <<catalog, locations, shifts, sent>>
    /\ UNCHANGED resolveVars
    /\ UNCHANGED handlerVars
    /\ UNCHANGED algoVars

\* Variant of BinTag: the tag list is consumed while it is iterated.
BinTag_ConsumesTag ==
    /\ pc = "populate"
    /\ k <= Len(Pairs(shifts, 1))
    /\ LET pair == Pairs(shifts, 1)[k]
           shift == shifts[pair[1]]
       IN  /\ schedule' = PlaceTag(schedule, shift, shift.coursesGiven[pair[2]])
           /\ shifts' = [shifts EXCEPT ![pair[1]].coursesGiven = Tail(@)]
    /\ k' = k + 1
    /\ UNCHANGED <<catalog, locations, pc, sent>>
    /\ UNCHANGED resolveVars
    /\ UNCHANGED handlerVars
    /\ UNCHANGED algoVars

\* bin, lines 620-652: one iteration of coursesGiven.forEach
BinTag ==
    /\ pc = "populate"
    /\ k <= Len(Pairs(shifts, 1))
    /\ LET pair == Pairs(shifts, 1)[k]
           shift == shifts[pair[1]]
       IN  schedule' = PlaceTag(schedule, shift, shift.coursesGiven[pair[2]])
    /\ k' = k + 1
    /\ UNCHANGED <<catalog, locations, shifts, pc, sent>>
    /\ UNCHANGED resolveVars
    /\ UNCHANGED handlerVars
    /\ UNCHANGED algoVars

\* bin, line 654: return binnedSchedule
BinReturn ==
    /\ pc = "populate"
    /\ k > Len(Pairs(shifts, 1))
    /\ pc' = "binned"
    /\ UNCHANGED <<catalog, locations, shifts, schedule, k, sent>>
    /\ UNCHANGED resolveVars
    /\ UNCHANGED handlerVars
    /\ UNCHANGED algoVars

\* handler, lines 765-797: the resolution pass over every cell
ResolvePass ==
    /\ pc = "binned"
    /\ schedule' = ResolveAll(schedule, catalog, locations)
    /\ pc' = "resolved"
    /\ UNCHANGED <<catalog, locations, shifts, k, sent>>
    /\ UNCHANGED resolveVars
    /\ UNCHANGED handlerVars
    /\ UNCHANGED algoVars

\* handler, line 799: res.json(schedule)
Send ==
    /\ pc = "resolved"
    /\ sent' = schedule
    /\ pc' = "sent"
    /\ UNCHANGED <<catalog, locations, shifts, schedule, k>>
    /\ UNCHANGED resolveVars
    /\ UNCHANGED handlerVars
    /\ UNCHANGED algoVars

Next == BinSkeleton \/ BinTag \/ BinReturn \/ ResolvePass \/ Send

Spec == Init /\ [][Next]_vars

----------------------------------------------------------------------------
(* getCourseCatalog (src/src/index.ts:657-671) *)

\* The character code of "\n".
Newline == 50

\* The positions of the newlines of a text.
Newlines(text) == { i \in DOMAIN text : text[i] = Newline }

\* The position of the n-th newline of a text.
NthNewline(text, n) ==
    CHOOSE p \in Newlines(text) : Cardinality({ q \in Newlines(text) : q < p }) = n - 1

\* String.prototype.split('\n'): the pieces between the newlines, one more
\* than there are newlines; the text before the first newline, after the last
\* newline and between two adjacent newlines may be empty.
Split(text) ==
    LET count == Cardinality(Newlines(text)) + 1
        first(n) == IF n = 1 THEN 1 ELSE NthNewline(text, n - 1) + 1
        last(n) == IF n = count THEN Len(text) ELSE NthNewline(text, n) - 1
    IN  [n \in 1..count |-> SubSeq(text, first(n), last(n))] \o <<>>

\* String.prototype.trim: the text without its leading and trailing blanks.
Trim(str) ==
    LET kept == { i \in DOMAIN str : str[i] # 0 }
    IN  IF kept = {} THEN <<>>
        ELSE SubSeq(str, CHOOSE i \in kept : \A j \in kept : i <= j,
                         CHOOSE i \in kept : \A j \in kept : j <= i)

\* The sample string that has the given characters.
NameOf(chars) ==
    CHOOSE name \in CoursePool \cup { DegenerateAbbreviation } : Chars(name) = chars

\* Lines 662-666: one CourseInfo per piece of data.toString().split('\n'),
\* of the piece trimmed.
getCourseCatalog(text) ==
    LET pieces == Split(text)
    IN  [n \in DOMAIN pieces |-> CourseInfo(NameOf(Trim(pieces[n])))] \o <<>>

\* The sample catalog sources:
\*   TidyFile             two courses on two lines, no newline at the end;
\*   TrailingNewlineFile  one course, the file ends with a newline;
\*   BlankLineFile        two courses with blanks around them and a blank
\*                        line between them;
\*   EmptyFile            no character at all.
TidyFile == Chars("CSCI-UA101") \o <<Newline>> \o Chars("CSCI-UA0101")
TrailingNewlineFile == Chars("CSCI-UA0101") \o <<Newline>>
BlankLineFile ==
    <<0>> \o Chars("CSCI-UA101") \o <<0, Newline, 0, Newline>> \o Chars("CSCI-UA0101")
EmptyFile == <<>>

FilePool == { TidyFile, TrailingNewlineFile, BlankLineFile, EmptyFile }

----------------------------------------------------------------------------
(* Calendar events and Shift construction (spec.md sections 3 and 4.2) *)

\* event.status of an event that carries none
NoStatus == "undefined"

Event(status, summary, weekDay, start, end) ==
    [status |-> status, summary |-> summary, weekDay |-> weekDay, start |-> start, end |-> end]

\* The sample events:
\*   BaseEvent        confirmed, its title names a course;
\*   CancelledEvent   cancelled, overlaps BaseEvent;
\*   TentativeEvent   tentative, overlaps BaseEvent, two course tags in its title;
\*   NoStatusEvent    no status;
\*   LateEvent        confirmed, another weekday;
\*   DegenerateEvent  confirmed, ends when it starts.
BaseEvent == Event("confirmed", "csci-ua 0101", 2, 0, 2)
CancelledEvent == Event("cancelled", "CSCI-UA0111", 2, 1, 3)
TentativeEvent == Event("tentative", "CSCI-UA102, CSCI-UA0111", 2, 1, 3)
NoStatusEvent == Event(NoStatus, "csci-ua 0101", 5, 2, 3)
LateEvent == Event("confirmed", "csci-ua 0101", 6, 2, 3)
DegenerateEvent == Event("confirmed", "csci-ua 0101", 2, 2, 2)

\* The course tags of an event title, for the titles of the sample events
\* (the delimiter policy is configuration; "," separates the tags here).
TitleTags(summary) ==
    CASE summary = "csci-ua 0101" -> <<"csci-ua 0101">>
      [] summary = "CSCI-UA0111" -> <<"CSCI-UA0111">>
      [] summary = "CSCI-UA102, CSCI-UA0111" -> <<"CSCI-UA102", "CSCI-UA0111">>

\* The interval of the event satisfies the invariant start < end of spec.md
\* section 3.  index.ts hands every live event to new Shift (758-760) and
\* every shift's start and end to new Interval (646-651) without a test of
\* its own; the constructors are not in src/, and whether they throw for an
\* interval that breaks the invariant is left open (see JsonReply).
ProperInterval(event) == event.start < event.end

\* new Shift(event, name)
NewShift(event, name) ==
    Shift(name, event.weekDay, Interval(event.start, event.end), TitleTags(event.summary))

----------------------------------------------------------------------------
(* The POST /api/schedule handler (src/src/index.ts:673-801) *)

CalendarInfo(name, id) == [name |-> name, id |-> id]

\* The sample calendars of a request, and the events the calendar service
\* holds for each id.
ArcCalendar == CalendarInfo("ARC", "arc-id")
UHallCalendar == CalendarInfo("UHall", "uhall-id")
AnnexCalendar == CalendarInfo("Annex", "annex-id")

CalendarPool == { ArcCalendar, UHallCalendar, AnnexCalendar }

EventsOf(id) ==
    CASE id = "arc-id" -> <<BaseEvent, CancelledEvent, TentativeEvent>>
      [] id = "uhall-id" -> <<NoStatusEvent, LateEvent>>
      [] id = "annex-id" -> <<LateEvent, DegenerateEvent>>

\* The statuses a fetch of a calendar's events returns.
StatusPool == { 200, 401, 403, 404, 500 }

\* Lines 715-752: the error response for a status >= 400.
ErrorResponse(status, name) ==
    IF status = 401 THEN [code |-> 401, body |-> <<"Invalid Credentials">>]
    ELSE IF status = 404 THEN [code |-> 404, body |-> <<name, "calendar not found">>]
    ELSE IF status = 500 THEN [code |-> 500, body |-> <<"Google backend error">>]
    ELSE [code |-> 500, body |-> <<"Unknown error">>]

\* The local state of a request that has just arrived.
NewRequest(calendars) ==
    [calendars |-> calendars,    \* req.body.calendars
     hpc |-> "start",            \* "start" | "catalog" | "fetch" | "json" | "done" | "crashed"
     locations |-> <<>>,
     catalog |-> <<>>,           \* courseCatalog
     allShifts |-> <<>>,
     at |-> 0,                   \* the position of for (const calId of calInfoList)
     fetched |-> <<>>,           \* the calendar ids fetched so far
     replies |-> <<>>,           \* the responseStatus of every fetch so far
     readOk |-> TRUE,            \* fs.readFile did not throw
     responses |-> <<>>]         \* what res.json has been given, with res.status

\* Lines 763-799: bin, the resolution pass, res.json(schedule).
Finish(rec) ==
    [rec EXCEPT !.hpc = "done",
                !.responses = Append(@, [code |-> 200,
                                         body |-> ResolveAll(bin(rec.catalog, rec.locations, rec.allShifts),
                                                             rec.catalog, rec.locations)])]

\* Lines 700-711: the next iteration of the for loop up to its await fetch,
\* or the code after the loop.
NextFetch(rec) ==
    IF rec.at < Len(rec.calendars)
    THEN [rec EXCEPT !.at = @ + 1,
                     !.fetched = Append(@, rec.calendars[rec.at + 1].id),
                     !.hpc = "fetch"]
    ELSE Finish(rec)

\* Variant of LiveEvent: only the presence of a status is tested.
LiveEvent_AnyStatus(event) == event.status # NoStatus

\* Line 759: event.status != null && event.status !== 'cancelled'
LiveEvent(event) == event.status # NoStatus /\ event.status # "cancelled"

\* Variant of AfterReply: the error branches do not return.
AfterReply_NoReturn(rec, status) ==
    IF status >= 400
    THEN [rec EXCEPT !.replies = Append(@, status),
                     !.responses = Append(@, ErrorResponse(status, rec.calendars[rec.at].name)),
                     !.hpc = "json"]
    ELSE [rec EXCEPT !.replies = Append(@, status), !.hpc = "json"]

\* Lines 714-755: after await fetch: an error response and return for a
\* status >= 400, await data.json() otherwise.
AfterReply(rec, status) ==
    IF status >= 400
    THEN [rec EXCEPT !.replies = Append(@, status),
                     !.responses = Append(@, ErrorResponse(status, rec.calendars[rec.at].name)),
                     !.hpc = "done"]
    ELSE [rec EXCEPT !.replies = Append(@, status), !.hpc = "json"]

\* Variant of Pushed: allShifts is one array shared by all requests.
Pushed_SharedArray(reqs, r, newShifts) ==
    [q \in DOMAIN reqs |-> [reqs[q] EXCEPT !.allShifts = @ \o newShifts]]

\* Line 759: allShifts.push(...) on the array of request r.
Pushed(reqs, r, newShifts) == [reqs EXCEPT ![r].allShifts = @ \o newShifts]

\* The states of the other specifications' variables during a handler run.
HandlerIdle ==
    /\ rawIn = <<>>
    /\ rpc = "idle"
    /\ out1 = <<>>
    /\ out2 = <<>>
    /\ catalog = <<>>
    /\ locations = <<>>
    /\ shifts = <<>>
    /\ schedule = <<>>
    /\ pc = "idle"
    /\ k = 0
    /\ sent = <<>>

\* SpecHandler: one request, for up to MaxCalendars calendars.
InitHandler ==
    /\ file \in FilePool
    /\ req \in [{ 1 } -> { NewRequest(calendars) : calendars \in SeqsUpTo(CalendarPool, MaxCalendars) }]
    /\ HandlerIdle
    /\ mergeTouching \in BOOLEAN

\* SpecParallel: two requests in flight, each for up to MaxParallel calendars.
InitParallel ==
    /\ file \in FilePool
    /\ req \in [{ 1, 2 } -> { NewRequest(calendars) : calendars \in SeqsUpTo(CalendarPool, MaxParallel) }]
    /\ HandlerIdle
    /\ mergeTouching \in BOOLEAN

\* Lines 674-697: from the arrival of the request to the await of
\* fs.readFile in getCourseCatalog.
Start(r) ==
    /\ req[r].hpc = "start"
    /\ req' = [req EXCEPT ![r].locations = [i \in DOMAIN req[r].calendars |-> req[r].calendars[i].name] \o <<>>,
                          ![r].hpc = "catalog"]
    /\ UNCHANGED <<file, resolveVars, binVars, algoVars>>

\* Lines 661-670, 697-711: readFile returns or throws, getCourseCatalog
\* returns the catalog or [], and the handler goes on to its first fetch.
CatalogRead(r) ==
    /\ req[r].hpc = "catalog"
    /\ \E ok \in BOOLEAN :
        req' = [req EXCEPT ![r] =
                   NextFetch([@ EXCEPT !.readOk = ok,
                                       !.catalog = IF ok THEN getCourseCatalog(file) ELSE <<>>])]
    /\ UNCHANGED <<file, resolveVars, binVars, algoVars>>

\* Lines 709-755: the fetch of the current calendar returns with a status.
FetchReply(r) ==
    /\ req[r].hpc = "fetch"
    /\ \E status \in StatusPool : req' = [req EXCEPT ![r] = AfterReply(@, status)]
    /\ UNCHANGED <<file, resolveVars, binVars, algoVars>>

\* Lines 755-761, then 700-711 or 763-799: data.json() returns the events and
\* a Shift is pushed for every event that passes the status test; then the
\* next fetch, or bin, the resolution pass and res.json.  For an event whose
\* interval has end <= start new Shift either throws, which ends the handler
\* with the Shifts pushed before it and without a response, or returns a
\* Shift like any other.
JsonReply(r) ==
    /\ req[r].hpc = "json"
    /\ LET name == req[r].calendars[req[r].at].name
           live == SelectSeq(EventsOf(req[r].calendars[req[r].at].id), LiveEvent)
           improper == { i \in DOMAIN live : ~ProperInterval(live[i]) }
       IN  \E throws \in BOOLEAN :
            LET made == IF improper # {} /\ throws
                        THEN (CHOOSE i \in improper : \A j \in improper : i <= j) - 1
                        ELSE Len(live)
                pushed == Pushed(req, r, [i \in 1..made |-> NewShift(live[i], name)] \o <<>>)
            IN  IF made = Len(live)
                THEN req' = [pushed EXCEPT ![r] = NextFetch(@)]
                ELSE req' = [pushed EXCEPT ![r].hpc = "crashed"]
    /\ UNCHANGED <<file, resolveVars, binVars, algoVars>>

NextHandler == \E r \in DOMAIN req : Start(r) \/ CatalogRead(r) \/ FetchReply(r) \/ JsonReply(r)

SpecHandler == InitHandler /\ [][NextHandler]_vars

SpecParallel == InitParallel /\ [][NextHandler]_vars

----------------------------------------------------------------------------
(* Vocabulary of the properties *)

\* The time points an interval list covers, on the half-unit grid: the
\* interval {start, end} covers the grid points 2*start .. 2*end.
Covered(list) ==
    { t \in 0..(2 * MaxTime) :
        \E i \in DOMAIN list : 2 * list[i].start <= t /\ t <= 2 * list[i].end }

StrictlySortedByStart(list) ==
    \A i \in DOMAIN list : \A j \in DOMAIN list : i < j => list[i].start < list[j].start

\* No time point is covered by two entries.
PairwiseDisjoint(list) ==
    \A i \in DOMAIN list : \A j \in DOMAIN list :
        i # j => Covered(<<list[i]>>) \cap Covered(<<list[j]>>) = {}

\* No two entries overlap: of any two, one ends before or when the other
\* starts.
NonOverlapping(list) ==
    \A i \in DOMAIN list : \A j \in DOMAIN list :
        i # j => list[i].end <= list[j].start \/ list[j].end <= list[i].start

AllCells == (DOMAIN catalog) \X (DOMAIN locations) \X (DOMAIN WeekDays)

Cell(sched, id) == sched[id[1]].locationSchedules[id[2]].dailySchedules[id[3]].intervals

\* The number of intervals held by all cells together.
TotalIntervals(sched) ==
    Cardinality(UNION { { <<id, i>> : i \in DOMAIN Cell(sched, id) } : id \in AllCells })

\* The (shift, tag) pair the next iteration of bin's inner forEach handles.
CurrentShift == shifts[Pairs(shifts, 1)[k][1]]
CurrentTag == CurrentShift.coursesGiven[Pairs(shifts, 1)[k][2]]

\* bin is about to handle one (shift, tag) pair.
TagReady == pc = "populate" /\ k <= Len(Pairs(shifts, 1))

\* The catalog positions whose score for the tag is strictly above 9/10.
Matching(tag) ==
    { c \in DOMAIN catalog :
        LET score == matchScore(catalog[c], tag) IN 10 * score.num > 9 * score.den }

FirstOf(S) == CHOOSE c \in S : \A j \in S : c <= j

KnownLocation(shift) == \E l \in DOMAIN locations : locations[l] = shift.location

----------------------------------------------------------------------------
(* Properties of the resolver, under SpecResolve *)

\* C1: for every raw interval list (any order, overlapping, duplicated or
\* empty) the resolver's output is strictly sorted ascending by start, no two
\* of its entries overlap, and it covers exactly the time points the input
\* covers; under the policy that merges touching intervals no two entries
\* share a time point either.
ResolverCanonical ==
    rpc \in { "once", "twice" } =>
        /\ StrictlySortedByStart(out1)
        /\ NonOverlapping(out1)
        /\ mergeTouching => PairwiseDisjoint(out1)
        /\ Covered(out1) = Covered(rawIn)

\* C1 witness: an unordered input with a duplicate and an overlap, resolved
\* into a single interval.
ResolverCanonicalWitness ==
    /\ rpc = "once"
    /\ Len(rawIn) = 3
    /\ rawIn[1].start > rawIn[2].start
    /\ rawIn[2] = rawIn[3]
    /\ rawIn[1].start < rawIn[2].end
    /\ Len(out1) = 1

\* C7: the resolver is idempotent: applied to its own output it returns that
\* output unchanged.
ResolverIdempotent == rpc = "twice" => out2 = out1

\* C7 witness: a second application to an output of two intervals that
\* differs from the raw input.
ResolverIdempotentWitness ==
    /\ rpc = "twice"
    /\ Len(rawIn) = 3
    /\ Len(out1) = 2
    /\ out2 = out1

----------------------------------------------------------------------------
(* Properties of bin and of the resolution pass, under Spec *)

\* C2: bin's Schedule has exactly one CourseSchedule per catalog entry in
\* catalog order, each with exactly one LocationSchedule per requested
\* location in request order, each with exactly 7 DailySchedules whose
\* weekDay values are 0..6 in index order; populating it with shifts never
\* adds, removes or reorders any of them.
ScheduleShape ==
    pc \in { "populate", "binned" } =>
        /\ DOMAIN schedule = 1..Len(catalog)
        /\ \A c \in DOMAIN schedule :
            /\ schedule[c].courseInfo = catalog[c]
            /\ DOMAIN schedule[c].locationSchedules = 1..Len(locations)
            /\ \A l \in DOMAIN schedule[c].locationSchedules :
                LET ls == schedule[c].locationSchedules[l]
                IN  /\ ls.location = locations[l]
                    /\ DOMAIN ls.dailySchedules = 1..7
                    /\ \A d \in 1..7 : ls.dailySchedules[d].weekDay = d - 1

\* C2 witness: bin has returned a 2 x 2 x 7 Schedule holding two intervals.
ScheduleShapeWitness ==
    /\ pc = "binned"
    /\ Len(catalog) = 2
    /\ Len(locations) = 2
    /\ Len(schedule) = 2
    /\ TotalIntervals(schedule) = 2

\* C3: each tag of each shift goes to the first CourseSchedule in catalog
\* order whose matchScore is strictly above 0.9: no other CourseSchedule
\* changes (a later entry above 0.9 never receives the interval, nor does an
\* entry scoring exactly 0.9), and the first one receives it when the shift's
\* location is a requested one.
FirstMatchOnly ==
    [][TagReady =>
        LET above == Matching(CurrentTag)
        IN  /\ \A c \in DOMAIN schedule :
                schedule'[c] # schedule[c] => (above # {} /\ c = FirstOf(above))
            /\ (above # {} /\ KnownLocation(CurrentShift) /\ k' # k) =>
                    schedule'[FirstOf(above)] # schedule[FirstOf(above)]
      ]_vars

\* C3 witness: the tag scores 10/11 against the first catalog entry and 1
\* against the second; the first entry holds the interval, the second none.
FirstMatchOnlyWitness ==
    /\ pc = "binned"
    /\ Len(catalog) = 2
    /\ shifts = <<BaseShift>>
    /\ locations = <<"ARC">>
    /\ matchScore(catalog[1], BaseShift.coursesGiven[1]) = [num |-> 10, den |-> 11]
    /\ matchScore(catalog[2], BaseShift.coursesGiven[1]) = [num |-> 1, den |-> 1]
    /\ Cell(schedule, <<1, 1, 3>>) = <<Interval(0, 2)>>
    /\ \A d \in DOMAIN WeekDays : Cell(schedule, <<2, 1, d>>) = <<>>

\* C4: for a (shift, tag) pair whose tag matches a catalog entry and whose
\* location is a requested one, bin appends exactly one interval
\* (shift.start, shift.end) to exactly one cell, that of the first matching
\* course, the shift's location and the shift's weekDay, and leaves the
\* interval list of every other cell unchanged.
PlacesExactlyOne ==
    [][(TagReady /\ k' # k /\ KnownLocation(CurrentShift)) =>
        LET above == Matching(CurrentTag)
        IN  above # {} =>
        \E id \in AllCells :
            /\ id[1] = FirstOf(above)
            /\ locations[id[2]] = CurrentShift.location
            /\ WeekDays[id[3]] = CurrentShift.weekDay
            /\ Cell(schedule', id) =
                   Append(Cell(schedule, id), Interval(CurrentShift.start, CurrentShift.end))
            /\ \A other \in AllCells \ {id} : Cell(schedule', other) = Cell(schedule, other)
      ]_vars

\* C4 witness: a single shift with one matching tag has placed exactly one
\* interval in a 2 x 2 x 7 Schedule, in the cell of the first course, the
\* second location and weekday 2.
PlacesExactlyOneWitness ==
    /\ pc = "binned"
    /\ Len(shifts) = 1
    /\ Len(shifts[1].coursesGiven) = 1
    /\ Len(catalog) = 2
    /\ Len(locations) = 2
    /\ TotalIntervals(schedule) = 1
    /\ Cell(schedule, <<1, 2, 3>>) = <<Interval(shifts[1].start, shifts[1].end)>>

\* The permutations of a list.
Reorderings(list) ==
    { [i \in DOMAIN list |-> list[f[i]]] : f \in Permutations(DOMAIN list) }

\* C5: the schedule sent (bin followed by the resolution of every cell) is
\* the same for every permutation of the shift list.
OrderIndependent ==
    pc = "sent" =>
        \A perm \in Reorderings(shifts) :
            ResolveAll(bin(catalog, locations, perm), catalog, locations) = sent

\* C5 witness: two shifts whose order changes bin's raw output, merged into
\* one interval of the schedule sent.
OrderIndependentWitness ==
    /\ pc = "sent"
    /\ Len(shifts) = 2
    /\ bin(catalog, locations, shifts) # bin(catalog, locations, <<shifts[2], shifts[1]>>)
    /\ \E id \in AllCells :
        /\ Len(Cell(bin(catalog, locations, shifts), id)) = 2
        /\ Len(Cell(sent, id)) = 1

\* C8: a tag that scores above 0.9 against no catalog entry adds no interval
\* to any cell, and bin goes on to the next (shift, tag) pair.
UnmatchedTagSkipped ==
    [][(TagReady /\ Matching(CurrentTag) = {}) =>
        (schedule' = schedule /\ pc' = "populate" /\ k' \in { k, k + 1 })
      ]_vars

\* C8 witness: bin has returned after a shift whose first tag scores exactly
\* 9/10 against the first catalog entry and whose second tag matches the
\* second entry: one interval in all, none under the first entry.
UnmatchedTagSkippedWitness ==
    /\ pc = "binned"
    /\ Len(shifts) = 1
    /\ Len(catalog) = 2
    /\ Len(shifts[1].coursesGiven) = 2
    /\ matchScore(catalog[1], shifts[1].coursesGiven[1]) = [num |-> 9, den |-> 10]
    /\ Matching(shifts[1].coursesGiven[1]) = {}
    /\ Matching(shifts[1].coursesGiven[2]) = {2}
    /\ KnownLocation(shifts[1])
    /\ TotalIntervals(schedule) = 1
    /\ \A id \in AllCells : id[1] = 1 => Cell(schedule, id) = <<>>

\* C9: a shift whose location is string-equal to no requested location adds
\* no interval to any cell, for each of its tags, and bin goes on to the next
\* (shift, tag) pair.
UnknownLocationSkipped ==
    [][(TagReady /\ ~KnownLocation(CurrentShift)) =>
        (schedule' = schedule /\ pc' = "populate" /\ k' \in { k, k + 1 })
      ]_vars

\* C9 witness: bin has returned after a shift at "arc" with a matching tag,
\* followed by a shift at the requested "ARC": only the second placed an
\* interval.
UnknownLocationSkippedWitness ==
    /\ pc = "binned"
    /\ Len(shifts) = 2
    /\ shifts[1].location = "arc"
    /\ Matching(shifts[1].coursesGiven[1]) # {}
    /\ locations = <<"UHall", "ARC">>
    /\ shifts[2] = BaseShift
    /\ TotalIntervals(schedule) = 1

\* The Schedule without its interval lists.
Frame(sched) ==
    [c \in DOMAIN sched |->
        [courseInfo |-> sched[c].courseInfo,
         locationSchedules |->
            [l \in DOMAIN sched[c].locationSchedules |->
                [location |-> sched[c].locationSchedules[l].location,
                 dailySchedules |->
                    [d \in DOMAIN sched[c].locationSchedules[l].dailySchedules |->
                        sched[c].locationSchedules[l].dailySchedules[d].weekDay]]]]]

\* C10: bin and the resolution pass leave the catalog, the location list and
\* the shift list unchanged; once the Schedule is built only its interval
\* lists are written.
InputsUnchanged ==
    [][/\ catalog' = catalog
       /\ locations' = locations
       /\ shifts' = shifts
       /\ pc # "start" => Frame(schedule') = Frame(schedule)
      ]_vars

\* C10 witness: a schedule has been sent in which the resolution pass merged
\* the two intervals bin placed for two shifts.
InputsUnchangedWitness ==
    /\ pc = "sent"
    /\ Len(shifts) = 2
    /\ Len(catalog) = 2
    /\ TotalIntervals(bin(catalog, locations, shifts)) = 2
    /\ TotalIntervals(sent) = 1

\* C17: in the schedule sent every cell (every course schedule, location
\* schedule and weekday) holds the resolver's output for the raw intervals bin
\* placed in that cell, also when catalog entries or location names repeat.
EveryCellResolved ==
    pc = "sent" =>
        /\ DOMAIN sent = DOMAIN catalog
        /\ \A id \in AllCells :
            Cell(sent, id) = getClassSchedule(Cell(bin(catalog, locations, shifts), id))

\* C17 witness: the catalog holds the same abbreviation twice and the
\* location list the same name twice; bin placed two overlapping intervals in
\* one cell, and the schedule sent holds their merge there.
EveryCellResolvedWitness ==
    /\ pc = "sent"
    /\ Len(catalog) = 2 /\ catalog[1] = catalog[2]
    /\ Len(locations) = 2 /\ locations[1] = locations[2]
    /\ Cell(bin(catalog, locations, shifts), <<1, 1, 3>>) = <<Interval(0, 2), Interval(1, 3)>>
    /\ Cell(sent, <<1, 1, 3>>) = <<Interval(0, 3)>>

----------------------------------------------------------------------------
(* Properties of the /api/schedule handler, under SpecHandler *)

\* The request has its catalog: getCourseCatalog has returned.
HasCatalog(rec) == rec.hpc \in { "fetch", "json", "done", "crashed" }

\* C12: blank lines of the catalog source are filtered out: the catalog
\* getCourseCatalog returns, which the handler passes to bin, holds no entry
\* whose abbreviation is the empty string.
NoBlankCatalogEntry ==
    \A r \in DOMAIN req :
        HasCatalog(req[r]) =>
            \A i \in DOMAIN req[r].catalog :
                req[r].catalog[i].abbreviation # DegenerateAbbreviation

\* C11: no cancelled event becomes a Shift: every element of the shift list
\* the handler builds and passes to bin is the Shift of an event it has read
\* whose status is present and is not 'cancelled'.
NoCancelledShift ==
    \A r \in DOMAIN req :
        \A i \in DOMAIN req[r].allShifts :
            \E c \in DOMAIN req[r].calendars :
                \E e \in DOMAIN EventsOf(req[r].calendars[c].id) :
                    LET event == EventsOf(req[r].calendars[c].id)[e]
                    IN  /\ c <= req[r].at
                        /\ event.status # NoStatus
                        /\ event.status # "cancelled"
                        /\ req[r].allShifts[i] = NewShift(event, req[r].calendars[c].name)

\* C11 witness: a schedule has been sent for two calendars holding five
\* events, one of them cancelled and one without a status: three Shifts were
\* passed to bin.
NoCancelledShiftWitness ==
    /\ req[1].hpc = "done"
    /\ req[1].calendars = <<ArcCalendar, UHallCalendar>>
    /\ Len(req[1].responses) = 1 /\ req[1].responses[1].code = 200
    /\ req[1].allShifts = <<NewShift(BaseEvent, "ARC"), NewShift(TentativeEvent, "ARC"),
                            NewShift(LateEvent, "UHall")>>

\* The intervals held by the cells of a schedule.
IntervalsIn(sched) ==
    UNION { { sched[c].locationSchedules[l].dailySchedules[d].intervals[i] :
                i \in DOMAIN sched[c].locationSchedules[l].dailySchedules[d].intervals } :
            <<c, l, d>> \in { id \in (DOMAIN sched) \X (1..MaxCalendars) \X (1..7) :
                                id[2] \in DOMAIN sched[id[1]].locationSchedules } }

\* The positions of the fetches of a request that returned a status >= 400.
FailedFetches(rec) == { i \in DOMAIN rec.replies : rec.replies[i] >= 400 }

\* The status code an error response carries for a fetch status >= 400.
ErrorCode(status) == IF status = 401 \/ status = 404 THEN status ELSE 500

\* C18: the calendars are fetched one at a time in request order and a
\* request is given at most one response; the first fetch status >= 400 is
\* the last fetch, answered by the one error response with its code, after
\* which the handler has stopped; a schedule is sent only when every calendar
\* was fetched with a status below 400.
SequentialFetchOneResponse ==
    \A r \in DOMAIN req :
        LET rec == req[r]
            failed == FailedFetches(rec)
        IN  /\ rec.at <= Len(rec.calendars)
            /\ rec.fetched = [i \in 1..rec.at |-> rec.calendars[i].id] \o <<>>
            /\ Len(rec.replies) \in { rec.at - 1, rec.at } \cap Nat
            /\ Len(rec.replies) < rec.at <=> rec.hpc = "fetch"
            /\ Len(rec.responses) <= 1
            /\ failed # {} =>
                /\ failed = { Len(rec.replies) }
                /\ rec.at = Len(rec.replies)
                /\ rec.hpc = "done"
                /\ Len(rec.responses) = 1
                /\ rec.responses[1].code = ErrorCode(rec.replies[rec.at])
                /\ rec.responses[1] = ErrorResponse(rec.replies[rec.at], rec.calendars[rec.at].name)
            /\ \A n \in DOMAIN rec.responses :
                rec.responses[n].code = 200 =>
                    /\ failed = {}
                    /\ Len(rec.replies) = Len(rec.calendars)
                    /\ rec.hpc = "done"
            /\ failed = {} /\ rec.hpc = "done" =>
                Len(rec.responses) = 1 /\ rec.responses[1].code = 200

\* C18 witness: of two calendars the first fetch returned 403: one response
\* with code 500, the second calendar never fetched, no Shift, no schedule.
SequentialFetchOneResponseWitness ==
    /\ req[1].calendars = <<ArcCalendar, UHallCalendar>>
    /\ req[1].replies = <<403>>
    /\ req[1].fetched = <<"arc-id">>
    /\ req[1].hpc = "done"
    /\ req[1].allShifts = <<>>
    /\ req[1].responses = <<[code |-> 500, body |-> <<"Unknown error">>]>>

\* Properties of two requests in flight, under SpecParallel.

\* The Shifts one calendar's events give a request that runs alone: one for
\* every live event, all of them when the loop went on after the calendar,
\* those before the first event with end <= start when new Shift threw.
AloneShiftsOf(calendar, threw) ==
    LET live == SelectSeq(EventsOf(calendar.id), LiveEvent)
        before == { i \in DOMAIN live : \A j \in 1..i : ProperInterval(live[j]) }
        made == IF threw THEN Cardinality(before) ELSE Len(live)
    IN  [i \in 1..made |-> NewShift(live[i], calendar.name)] \o <<>>

\* The Shifts of the first n calendars of a request; threw tells that new
\* Shift threw at calendar n.
RECURSIVE AloneShifts(_, _, _)
AloneShifts(calendars, n, threw) ==
    IF n <= 0 THEN <<>>
    ELSE AloneShifts(calendars, n - 1, FALSE) \o AloneShiftsOf(calendars[n], threw)

\* The calendars whose events a request has read so far.
EventsRead(rec) ==
    IF rec.hpc \in { "start", "catalog" } THEN 0
    ELSE IF rec.hpc = "crashed" \/ (rec.hpc = "done" /\ FailedFetches(rec) = {})
    THEN rec.at
    ELSE rec.at - 1

\* The response a request gives when it runs alone with the same calendars,
\* the same outcome of the catalog read, the same fetch statuses and the same
\* outcome of new Shift.
AloneResponse(rec) ==
    LET courses == IF rec.readOk THEN getCourseCatalog(file) ELSE <<>>
        names == [i \in DOMAIN rec.calendars |-> rec.calendars[i].name] \o <<>>
    IN  IF rec.hpc = "crashed" THEN <<>>
        ELSE IF FailedFetches(rec) # {}
        THEN <<ErrorResponse(rec.replies[rec.at], rec.calendars[rec.at].name)>>
        ELSE <<[code |-> 200,
                body |-> ResolveAll(bin(courses, names, AloneShifts(rec.calendars, Len(rec.calendars), FALSE)),
                                    courses, names)]>>

\* The shift list, catalog and response of each request are those it has when
\* it runs alone.
AsAlone ==
    \A r \in DOMAIN req :
        /\ req[r].allShifts = AloneShifts(req[r].calendars, EventsRead(req[r]), req[r].hpc = "crashed")
        /\ HasCatalog(req[r]) =>
            req[r].catalog = IF req[r].readOk THEN getCourseCatalog(file) ELSE <<>>
        /\ req[r].hpc \in { "done", "crashed" } => req[r].responses = AloneResponse(req[r])
        /\ req[r].hpc \notin { "done", "crashed" } => req[r].responses = <<>>

\* A step of one request leaves the state of every other request as it was.
OthersUntouched ==
    \A r \in DOMAIN req : req'[r] # req[r] => \A q \in DOMAIN req \ { r } : req'[q] = req[q]

\* C15: however the awaits of two requests interleave, no step of one request
\* writes the state of the other, and the response of each request is the
\* response it gives alone.
ParallelIndependent == []AsAlone /\ [][OthersUntouched]_vars

\* C15 witness: the first request has sent its schedule for ARC, built from
\* its two Shifts, while the second, for UHall, is between its fetch and its
\* events and holds no Shift.
ParallelIndependentWitness ==
    /\ req[1].calendars = <<ArcCalendar>>
    /\ req[1].hpc = "done"
    /\ Len(req[1].allShifts) = 2
    /\ Len(req[1].responses) = 1
    /\ req[1].responses[1].code = 200
    /\ IntervalsIn(req[1].responses[1].body) # {}
    /\ req[2].calendars = <<UHallCalendar>>
    /\ req[2].hpc = "json"
    /\ req[2].allShifts = <<>>
    /\ req[2].responses = <<>>

====
